---------------------------- MODULE Spec2Model ----------------------------
(***************************************************************************)
(* The Evals API image-inputs notebook                                     *)
(* (examples/evaluation/use-cases/EvalsAPI_Image_Inputs.ipynb) run top to  *)
(* bottom against the remote Evals service.  The notebook is one           *)
(* sequential Python process; the remote run is the environment.           *)
(* The streaming example (examples/data/oai_docs/overview-with-streaming   *)
(* .txt): the Python EventHandler and the Node.js listener chain, fed the  *)
(* same events of a streamed run.                                          *)
(***************************************************************************)
EXTENDS Naturals, Integers, Sequences, FiniteSets, TLC

(* ------------------------------ bounds -------------------------------- *)
\* longest test split drawn for the dataset
MaxDataset == 4
\* the history counter of polls saturates here
MaxPolls == 2
\* longest page of output items the service returns
MaxItems == 2

\* longest stream of events delivered to the handlers
MaxEvents == 2
\* longest outputs list of one code_interpreter delta
MaxOutputs == 2

(* ------------------------- program constants -------------------------- *)
\* dataset["test"].select(range(3))
NumSelected == 3
\* time.sleep(5)
SleepSeconds == 5

\* "required": ["media_url", "reference", "prompt"]
RequiredFields == {"media_url", "reference", "prompt"}

\* row i of the dataset's test split: the fields the notebook reads plus one
\* it does not read; rows are pairwise distinct
Example(i) ==
  [media_url |-> <<"media_url", i>>, reference |-> <<"reference", i>>,
   prompt |-> <<"prompt", i>>, category |-> <<"category", i>>]

\* statuses a run can report; the last three are final for the remote run
RunStatuses == {"queued", "in_progress", "completed", "failed", "canceled"}
RemoteTerminal == {"completed", "failed", "canceled"}

EvalIds == {"eval_1", "eval_2"}
RunIds == {"evalrun_1", "evalrun_2"}

RemoteCalls == {"evals.create", "evals.runs.create", "evals.runs.retrieve",
                "evals.runs.output_items.list"}

VARIABLES
  pc,                 \* the statement the notebook executes next
  assigned,           \* names bound in the kernel's namespace
  dataset,            \* dataset["test"]
  selected,           \* dataset["test"].select(range(3)), being iterated
  evals_data_source,
  eval_object,        \* id of the created eval
  eval_run,           \* id of the created run
  run,                \* the last retrieved run: [id, status]
  output_items,
  df,                 \* the results table
  first_item,
  outstanding,        \* requests sent and not yet answered, oldest first
  issued,             \* remote calls issued so far (history)
  completed,          \* remote calls answered successfully so far (history)
  remoteStatus,       \* the run's status inside the service
  polls,              \* runs.retrieve calls issued (history, saturating)
  sleepsSincePoll,    \* sleeps since the last runs.retrieve was issued
  sleepDur,           \* seconds of the most recent sleep, 0 before any
  listCalls,          \* output_items.list calls issued (history)
  displays,           \* tables displayed (history)
  raisedBy,           \* what raised and stopped the notebook, or "none"
  py_out,             \* standard output of the Python example, as tokens
  node_out,           \* standard output of the Node.js example, as tokens
  py_last,            \* what the Python handler wrote for the last event
  node_last,          \* what the Node.js listener wrote for the last event
  lastEvent,          \* the event delivered last
  delivered           \* number of events delivered so far

\* variables of the notebook
notebookVars ==
  <<pc, assigned, dataset, selected, evals_data_source, eval_object,
    eval_run, run, output_items, df, first_item, outstanding, issued,
    completed, remoteStatus, polls, sleepsSincePoll, sleepDur,
    listCalls, displays, raisedBy>>

\* variables of the streaming example
streamVars == <<py_out, node_out, py_last, node_last, lastEvent, delivered>>

vars == <<notebookVars, streamVars>>

\* variables of the data cells
dataVars == <<dataset, selected, evals_data_source>>
\* variables of the result cells
resultVars == <<output_items, df, first_item>>
\* history of the polling loop
loopHist == <<polls, sleepsSincePoll, sleepDur, listCalls, displays>>

NoRun == [id |-> "None", status |-> "None"]
NoTable == [prompt |-> <<>>, reference |-> <<>>, model_response |-> <<>>,
            grading_results |-> <<>>]
NoItem == [datasource_item |-> [media_url |-> <<>>, reference |-> <<>>,
                                prompt |-> <<>>],
           sample_output |-> <<>>, results |-> <<>>]

Bump(n, cap) == IF n < cap THEN n + 1 ELSE n

\* all sequences over S of length lo..hi
SeqsOf(S, lo, hi) == UNION {[1..n -> S] : n \in lo..hi}

Range(s) == {s[i] : i \in 1..Len(s)}

\* an event of the streamed run, with the fields the handlers read
Event(kind, value, type, input, has_outputs, outputs) ==
  [kind |-> kind, value |-> value, type |-> type, input |-> input,
   has_outputs |-> has_outputs, outputs |-> outputs]

NoEvent == Event("none", "", "", "", FALSE, <<>>)

Init ==
  /\ py_out = <<>>
  /\ node_out = <<>>
  /\ py_last = <<>>
  /\ node_last = <<>>
  /\ lastEvent = NoEvent
  /\ delivered = 0
  /\ pc = "prepare"
  /\ assigned = {}
  /\ dataset \in {[i \in 1..n |-> Example(i)] : n \in NumSelected..MaxDataset}
  /\ selected = <<>>
  /\ evals_data_source = <<>>
  /\ eval_object = "None"
  /\ eval_run = "None"
  /\ run = NoRun
  /\ output_items = <<>>
  /\ df = NoTable
  /\ first_item = NoItem
  /\ outstanding = <<>>
  /\ issued = {}
  /\ completed = {}
  /\ remoteStatus = "none"
  /\ polls = 0
  /\ sleepsSincePoll = 0
  /\ sleepDur = 0
  /\ listCalls = 0
  /\ displays = 0
  /\ raisedBy = "none"

(* ------------------------ dataset preparation ------------------------- *)
\* one entry of evals_data_source built from a dataset row
Entry(example) ==
  [item |-> [media_url |-> example.media_url,
             reference |-> example.reference,
             prompt |-> example.prompt]]

\* PrepareStart without .select(range(3)): the whole test split is iterated
PrepareStart_NoSelect ==
  /\ pc = "prepare"
  /\ evals_data_source' = <<>>
  /\ selected' = dataset
  /\ assigned' = assigned \cup {"evals_data_source"}
  /\ pc' = "prepare_loop"
  /\ UNCHANGED streamVars
  /\ UNCHANGED <<dataset, eval_object, eval_run, run, resultVars, outstanding,
                 issued, completed, remoteStatus, loopHist, raisedBy>>

\* evals_data_source = [] ; the iterable dataset["test"].select(range(3))
PrepareStart ==
  /\ pc = "prepare"
  /\ evals_data_source' = <<>>
  /\ selected' = SubSeq(dataset, 1, NumSelected)
  /\ assigned' = assigned \cup {"evals_data_source"}
  /\ pc' = "prepare_loop"
  /\ UNCHANGED streamVars
  /\ UNCHANGED <<dataset, eval_object, eval_run, run, resultVars, outstanding,
                 issued, completed, remoteStatus, loopHist, raisedBy>>

\* one iteration of the for loop: append the next selected example
PrepareAppend ==
  /\ pc = "prepare_loop"
  /\ Len(evals_data_source) < Len(selected)
  /\ evals_data_source' =
       Append(evals_data_source, Entry(selected[Len(evals_data_source) + 1]))
  /\ UNCHANGED streamVars
  /\ UNCHANGED <<pc, assigned, dataset, selected, eval_object, eval_run, run,
                 resultVars, outstanding, issued, completed, remoteStatus,
                 loopHist, raisedBy>>

\* the iterable is exhausted: the next code cell runs
PrepareDone ==
  /\ pc = "prepare_loop"
  /\ Len(evals_data_source) = Len(selected)
  /\ pc' = "create_eval"
  /\ UNCHANGED streamVars
  /\ UNCHANGED <<assigned, dataVars, eval_object, eval_run, run, resultVars,
                 outstanding, issued, completed, remoteStatus, loopHist,
                 raisedBy>>

(* --------------------------- remote calls ----------------------------- *)
Request(call, eval_id, run_id) ==
  [call |-> call, eval_id |-> eval_id, run_id |-> run_id]

\* the requests in flight once the k-th has been answered
Without(reqs, k) == SubSeq(reqs, 1, k - 1) \o SubSeq(reqs, k + 1, Len(reqs))

\* eval_object = client.evals.create(...): the request leaves, the cell blocks
CreateEvalIssue ==
  /\ pc = "create_eval"
  /\ outstanding' = Append(outstanding, Request("evals.create", "None", "None"))
  /\ issued' = issued \cup {"evals.create"}
  /\ pc' = "await_create_eval"
  /\ UNCHANGED streamVars
  /\ UNCHANGED <<assigned, dataVars, eval_object, eval_run, run, resultVars,
                 completed, remoteStatus, loopHist, raisedBy>>

\* the service answers with a new eval; eval_object is bound
CreateEvalReturn ==
  /\ pc = "await_create_eval"
  /\ \E k \in 1..Len(outstanding), id \in EvalIds :
       /\ outstanding[k].call = "evals.create"
       /\ outstanding' = Without(outstanding, k)
       /\ eval_object' = id
  /\ completed' = completed \cup {"evals.create"}
  /\ assigned' = assigned \cup {"eval_object"}
  /\ pc' = "create_run"
  /\ UNCHANGED streamVars
  /\ UNCHANGED <<dataVars, eval_run, run, resultVars, issued, remoteStatus,
                 loopHist, raisedBy>>

\* eval_run = client.evals.runs.create(eval_id=eval_object.id, ...)
CreateRunIssue ==
  /\ pc = "create_run"
  /\ outstanding' =
       Append(outstanding, Request("evals.runs.create", eval_object, "None"))
  /\ issued' = issued \cup {"evals.runs.create"}
  /\ pc' = "await_create_run"
  /\ UNCHANGED streamVars
  /\ UNCHANGED <<assigned, dataVars, eval_object, eval_run, run, resultVars,
                 completed, remoteStatus, loopHist, raisedBy>>

\* the service answers with a new, queued run; eval_run is bound
CreateRunReturn ==
  /\ pc = "await_create_run"
  /\ \E k \in 1..Len(outstanding), id \in RunIds :
       /\ outstanding[k].call = "evals.runs.create"
       /\ outstanding' = Without(outstanding, k)
       /\ eval_run' = id
  /\ remoteStatus' = "queued"
  /\ completed' = completed \cup {"evals.runs.create"}
  /\ assigned' = assigned \cup {"eval_run"}
  /\ pc' = "retrieve"
  /\ UNCHANGED streamVars
  /\ UNCHANGED <<dataVars, eval_object, run, resultVars, issued, loopHist,
                 raisedBy>>

\* the run advances inside the service; a final status never changes
RemoteProgress ==
  /\ remoteStatus \in {"queued", "in_progress"}
  /\ \E s \in RunStatuses :
       /\ s # "queued"
       /\ s # remoteStatus
       /\ remoteStatus' = s
  /\ UNCHANGED streamVars
  /\ UNCHANGED <<pc, assigned, dataVars, eval_object, eval_run, run,
                 resultVars, outstanding, issued, completed, loopHist,
                 raisedBy>>

(* --------------------------- polling loop ----------------------------- *)
\* IsFinished that forgets "failed"
IsFinished_CompletedOnly(status) == status = "completed"

\* IsFinished that takes any started run for a finished one
IsFinished_NotQueued(status) == status # "queued"

\* run.status == "completed" or run.status == "failed"
IsFinished(status) == status = "completed" \/ status = "failed"

\* RetrieveIssue that does not wait for the answer (a call left un-awaited)
RetrieveIssue_NoWait ==
  /\ pc = "retrieve"
  /\ outstanding' =
       Append(outstanding,
              Request("evals.runs.retrieve", eval_object, eval_run))
  /\ issued' = issued \cup {"evals.runs.retrieve"}
  /\ polls' = Bump(polls, MaxPolls)
  /\ sleepsSincePoll' = 0
  /\ pc' = "check"
  /\ UNCHANGED streamVars
  /\ UNCHANGED <<assigned, dataVars, eval_object, eval_run, run, resultVars,
                 completed, remoteStatus, sleepDur, listCalls, displays,
                 raisedBy>>

\* while True: run = client.evals.runs.retrieve(run_id=eval_run.id,
\*                                              eval_id=eval_object.id)
RetrieveIssue ==
  /\ pc = "retrieve"
  /\ outstanding' =
       Append(outstanding,
              Request("evals.runs.retrieve", eval_object, eval_run))
  /\ issued' = issued \cup {"evals.runs.retrieve"}
  /\ polls' = Bump(polls, MaxPolls)
  /\ sleepsSincePoll' = 0
  /\ pc' = "await_retrieve"
  /\ UNCHANGED streamVars
  /\ UNCHANGED <<assigned, dataVars, eval_object, eval_run, run, resultVars,
                 completed, remoteStatus, sleepDur, listCalls, displays,
                 raisedBy>>

\* the service answers with the run as it is now; run is bound
RetrieveReturn ==
  /\ pc = "await_retrieve"
  /\ \E k \in 1..Len(outstanding) :
       /\ outstanding[k].call = "evals.runs.retrieve"
       /\ outstanding' = Without(outstanding, k)
       /\ run' = [id |-> outstanding[k].run_id, status |-> remoteStatus]
  /\ completed' = completed \cup {"evals.runs.retrieve"}
  /\ assigned' = assigned \cup {"run"}
  /\ pc' = "check"
  /\ UNCHANGED streamVars
  /\ UNCHANGED <<dataVars, eval_object, eval_run, resultVars, issued,
                 remoteStatus, loopHist, raisedBy>>

\* CheckStatus with a poll budget: the loop gives up after two polls
CheckStatus_Timeout ==
  /\ pc = "check"
  /\ pc' = IF IsFinished(run.status) \/ polls >= 2 THEN "list" ELSE "sleep"
  /\ UNCHANGED streamVars
  /\ UNCHANGED <<assigned, dataVars, eval_object, eval_run, run, resultVars,
                 outstanding, issued, completed, remoteStatus, loopHist,
                 raisedBy>>

\* if run.status == "completed" or run.status == "failed": ... else fall
\* through to time.sleep(5)
CheckStatus ==
  /\ pc = "check"
  /\ pc' = IF IsFinished(run.status) THEN "list" ELSE "sleep"
  /\ UNCHANGED streamVars
  /\ UNCHANGED <<assigned, dataVars, eval_object, eval_run, run, resultVars,
                 outstanding, issued, completed, remoteStatus, loopHist,
                 raisedBy>>

\* Sleep with a linear backoff: time.sleep(5 * polls)
Sleep_Backoff ==
  /\ pc = "sleep"
  /\ sleepDur' = SleepSeconds * polls
  /\ sleepsSincePoll' = Bump(sleepsSincePoll, 2)
  /\ pc' = "retrieve"
  /\ UNCHANGED streamVars
  /\ UNCHANGED <<assigned, dataVars, eval_object, eval_run, run, resultVars,
                 outstanding, issued, completed, remoteStatus, polls,
                 listCalls, displays, raisedBy>>

\* time.sleep(5), then the next iteration of while True
Sleep ==
  /\ pc = "sleep"
  /\ sleepDur' = SleepSeconds
  /\ sleepsSincePoll' = Bump(sleepsSincePoll, 2)
  /\ pc' = "retrieve"
  /\ UNCHANGED streamVars
  /\ UNCHANGED <<assigned, dataVars, eval_object, eval_run, run, resultVars,
                 outstanding, issued, completed, remoteStatus, polls,
                 listCalls, displays, raisedBy>>

(* ------------------------- results and display ------------------------ *)
\* item.sample.output as the service may return it: nothing, or several
SampleOutputs == {<<>>, <<"response_1", "response_2">>}

\* item.results as the service may return it: no grader result, a grader
\* result without output, or several grader results
GraderResults ==
  { <<>>,
    <<[output |-> <<>>]>>,
    <<[output |-> <<"grade_1", "grade_2">>], [output |-> <<"grade_3">>]>> }

\* output items the service may list for the run: each echoes one entry of
\* the data source the run was created with
OutputItems ==
  { [datasource_item |-> e.item, sample_output |-> so, results |-> rs] :
      e \in Range(evals_data_source),
      so \in {x \in SampleOutputs : x # <<>>},
      rs \in {x \in GraderResults : x # <<>>} }
  \cup
  { [datasource_item |-> e.item, sample_output |-> so, results |-> rs] :
      e \in Range(evals_data_source),
      so \in SampleOutputs,
      rs \in {x \in GraderResults : x # <<>> /\ x[1].output # <<>>} }
  \cup
  { [datasource_item |-> e.item, sample_output |-> so, results |-> <<>>] :
      e \in Range(evals_data_source),
      so \in {x \in SampleOutputs : x # <<>>} }

\* the [0] subscripts of the table's list comprehensions all succeed
CanBuild(items) ==
  \A i \in 1..Len(items) :
    /\ items[i].sample_output # <<>>
    /\ items[i].results # <<>>
    /\ items[i].results[1].output # <<>>

\* Table that takes the last element of each output list instead of the first
Table_LastOutput(items) ==
  [prompt |-> [i \in 1..Len(items) |-> items[i].datasource_item.prompt],
   reference |-> [i \in 1..Len(items) |-> items[i].datasource_item.reference],
   model_response |->
     [i \in 1..Len(items) |->
        items[i].sample_output[Len(items[i].sample_output)]],
   grading_results |->
     [i \in 1..Len(items) |->
        items[i].results[1].output[Len(items[i].results[1].output)]]]

\* pd.DataFrame({"prompt": [...], "reference": [...], "model_response": [...],
\*               "grading_results": [...]})
Table(items) ==
  [prompt |-> [i \in 1..Len(items) |-> items[i].datasource_item.prompt],
   reference |-> [i \in 1..Len(items) |-> items[i].datasource_item.reference],
   model_response |-> [i \in 1..Len(items) |-> items[i].sample_output[1]],
   grading_results |-> [i \in 1..Len(items) |-> items[i].results[1].output[1]]]

\* client.evals.runs.output_items.list(run_id=run.id, eval_id=eval_object.id)
ListIssue ==
  /\ pc = "list"
  /\ outstanding' =
       Append(outstanding,
              Request("evals.runs.output_items.list", eval_object, run.id))
  /\ issued' = issued \cup {"evals.runs.output_items.list"}
  /\ listCalls' = Bump(listCalls, 2)
  /\ pc' = "await_list"
  /\ UNCHANGED streamVars
  /\ UNCHANGED <<assigned, dataVars, eval_object, eval_run, run, resultVars,
                 completed, remoteStatus, polls, sleepsSincePoll, sleepDur,
                 displays, raisedBy>>

\* output_items = list(...): the service answers with the run's output items
ListReturn ==
  /\ pc = "await_list"
  /\ \E k \in 1..Len(outstanding), items \in SeqsOf(OutputItems, 0, MaxItems) :
       /\ outstanding[k].call = "evals.runs.output_items.list"
       /\ outstanding' = Without(outstanding, k)
       /\ output_items' = items
  /\ completed' = completed \cup {"evals.runs.output_items.list"}
  /\ assigned' = assigned \cup {"output_items"}
  /\ pc' = "build"
  /\ UNCHANGED streamVars
  /\ UNCHANGED <<dataVars, eval_object, eval_run, run, df, first_item, issued,
                 remoteStatus, loopHist, raisedBy>>

\* BuildTable that skips the items it cannot index instead of raising
BuildTable_Tolerant ==
  /\ pc = "build"
  /\ df' = Table(SelectSeq(output_items, LAMBDA it : CanBuild(<<it>>)))
  /\ assigned' = assigned \cup {"df"}
  /\ pc' = "display"
  /\ UNCHANGED streamVars
  /\ UNCHANGED <<dataVars, eval_object, eval_run, run, output_items,
                 first_item, outstanding, issued, completed, remoteStatus,
                 loopHist, raisedBy>>

\* df = pd.DataFrame({...}): an empty list under a [0] raises IndexError
BuildTable ==
  /\ pc = "build"
  /\ IF CanBuild(output_items)
       THEN /\ df' = Table(output_items)
            /\ assigned' = assigned \cup {"df"}
            /\ pc' = "display"
            /\ UNCHANGED raisedBy
       ELSE /\ raisedBy' = "DataFrame"
            /\ pc' = "raised"
            /\ UNCHANGED <<df, assigned>>
  /\ UNCHANGED streamVars
  /\ UNCHANGED <<dataVars, eval_object, eval_run, run, output_items,
                 first_item, outstanding, issued, completed, remoteStatus,
                 loopHist>>

\* Display without the break: the loop goes on to time.sleep(5)
Display_NoBreak ==
  /\ pc = "display"
  /\ displays' = Bump(displays, 2)
  /\ pc' = "sleep"
  /\ UNCHANGED streamVars
  /\ UNCHANGED <<assigned, dataVars, eval_object, eval_run, run, resultVars,
                 outstanding, issued, completed, remoteStatus, polls,
                 sleepsSincePoll, sleepDur, listCalls, raisedBy>>

\* display(df) ; break : the loop is left and the next cell runs
Display ==
  /\ pc = "display"
  /\ displays' = Bump(displays, 2)
  /\ pc' = "first_item"
  /\ UNCHANGED streamVars
  /\ UNCHANGED <<assigned, dataVars, eval_object, eval_run, run, resultVars,
                 outstanding, issued, completed, remoteStatus, polls,
                 sleepsSincePoll, sleepDur, listCalls, raisedBy>>

\* first_item = output_items[0] ; print(json.dumps(dict(first_item), ...))
FirstItem ==
  /\ pc = "first_item"
  /\ IF output_items # <<>>
       THEN /\ first_item' = output_items[1]
            /\ assigned' = assigned \cup {"first_item"}
            /\ pc' = "done"
            /\ UNCHANGED raisedBy
       ELSE /\ raisedBy' = "first_item"
            /\ pc' = "raised"
            /\ UNCHANGED <<first_item, assigned>>
  /\ UNCHANGED streamVars
  /\ UNCHANGED <<dataVars, eval_object, eval_run, run, output_items, df,
                 outstanding, issued, completed, remoteStatus, loopHist>>

\* any remote call may raise; nothing catches it, the notebook stops
RemoteRaise ==
  /\ pc \in {"await_create_eval", "await_create_run", "await_retrieve",
             "await_list"}
  /\ \E k \in 1..Len(outstanding) :
       /\ outstanding' = Without(outstanding, k)
       /\ raisedBy' = outstanding[k].call
  /\ pc' = "raised"
  /\ UNCHANGED streamVars
  /\ UNCHANGED <<assigned, dataVars, eval_object, eval_run, run, resultVars,
                 issued, completed, remoteStatus, loopHist>>

Next ==
  \/ PrepareStart \/ PrepareAppend \/ PrepareDone
  \/ CreateEvalIssue \/ CreateEvalReturn
  \/ CreateRunIssue \/ CreateRunReturn
  \/ RemoteProgress
  \/ RetrieveIssue \/ RetrieveReturn \/ CheckStatus \/ Sleep
  \/ ListIssue \/ ListReturn \/ BuildTable \/ Display \/ FirstItem
  \/ RemoteRaise

Spec == Init /\ [][Next]_vars

\* the steps of the notebook's own process (all but the service's progress)
NotebookStep ==
  \/ PrepareStart \/ PrepareAppend \/ PrepareDone
  \/ CreateEvalIssue \/ CreateEvalReturn
  \/ CreateRunIssue \/ CreateRunReturn
  \/ RetrieveIssue \/ RetrieveReturn \/ CheckStatus \/ Sleep
  \/ ListIssue \/ ListReturn \/ BuildTable \/ Display \/ FirstItem
  \/ RemoteRaise

\* the kernel keeps executing the notebook and every request is answered
FairSpec == Init /\ [][Next]_vars /\ WF_vars(NotebookStep)

(* ------------------------- streaming example -------------------------- *)
\* Standard output is a sequence of tokens: a newline is always the token
\* "\n", every other token is a piece of text without newline.  Writing the
\* empty string writes nothing.
Write(text) == IF text = "" THEN <<>> ELSE <<text>>

\* tool_call.type / delta.type
ToolTypes == {"code_interpreter", "function"}
\* delta.value of a text delta
TextValues == {"", "Hi"}
\* delta.code_interpreter.input; "" also stands for an absent input
CodeInputs == {"", "code"}
\* the elements an outputs list may hold: logs, or an image without logs
CodeOutputs ==
  { [type |-> "logs", logs |-> "log_a"], [type |-> "logs", logs |-> "log_b"],
    [type |-> "image", logs |-> "image_file"] }

\* the tool call deltas the stream may carry: outputs is absent
\* (has_outputs = FALSE), or a list that may be empty
ToolCallDeltas ==
  { Event("tool_call_delta", "", "function", "", FALSE, <<>>) }
  \cup
  { Event("tool_call_delta", "", "code_interpreter", input, FALSE, <<>>) :
      input \in CodeInputs }
  \cup
  { Event("tool_call_delta", "", "code_interpreter", input, TRUE, outputs) :
      input \in CodeInputs, outputs \in SeqsOf(CodeOutputs, 0, MaxOutputs) }

(* Python: class EventHandler(AssistantEventHandler) *)
\* print(f"\nassistant > ", end="", flush=True)
on_text_created(text) == <<"\n", "assistant > ">>

\* print(delta.value, end="", flush=True)
on_text_delta(delta) == Write(delta.value)

\* print(f"\nassistant > {tool_call.type}\n", flush=True)
on_tool_call_created(tool_call) ==
  <<"\n", "assistant > ">> \o Write(tool_call.type) \o <<"\n">> \o <<"\n">>

\* for output in outputs: if output.type == "logs": print(f"\n{output.logs}")
RECURSIVE py_logs(_)
py_logs(outputs) ==
  IF outputs = <<>> THEN <<>>
  ELSE (IF Head(outputs).type = "logs"
          THEN <<"\n">> \o Write(Head(outputs).logs) \o <<"\n">>
          ELSE <<>>)
       \o py_logs(Tail(outputs))

\* on_tool_call_delta that writes every output, whatever its type
RECURSIVE py_logs_any(_)
py_logs_any(outputs) ==
  IF outputs = <<>> THEN <<>>
  ELSE <<"\n">> \o Write(Head(outputs).logs) \o <<"\n">>
       \o py_logs_any(Tail(outputs))

on_tool_call_delta_AnyOutput(delta) ==
  IF delta.type = "code_interpreter"
    THEN (IF delta.input # "" THEN Write(delta.input) ELSE <<>>)
         \o (IF delta.has_outputs /\ delta.outputs # <<>>
               THEN <<"\n", "\n", "output >", "\n">>
                    \o py_logs_any(delta.outputs)
               ELSE <<>>)
    ELSE <<>>

\* def on_tool_call_delta(self, delta, snapshot): an absent or empty input
\* and an absent or empty outputs list are false in Python
on_tool_call_delta(delta) ==
  IF delta.type = "code_interpreter"
    THEN (IF delta.input # "" THEN Write(delta.input) ELSE <<>>)
         \o (IF delta.has_outputs /\ delta.outputs # <<>>
               THEN <<"\n", "\n", "output >", "\n">> \o py_logs(delta.outputs)
               ELSE <<>>)
    ELSE <<>>

(* Node.js: openai.beta.threads.runs.stream(...).on(...) *)
\* .on('textCreated', (text) => process.stdout.write('\nassistant > '))
textCreated(text) == <<"\n", "assistant > ">>

\* .on('textDelta', (textDelta, snapshot) =>
\*       process.stdout.write(textDelta.value))
textDelta(delta) == Write(delta.value)

\* process.stdout.write(`\nassistant > ${toolCall.type}\n\n`)
toolCallCreated(toolCall) ==
  <<"\n", "assistant > ">> \o Write(toolCall.type) \o <<"\n", "\n">>

\* outputs.forEach(output => { if (output.type === "logs")
\*   process.stdout.write(`\n${output.logs}\n`) })
RECURSIVE node_logs(_)
node_logs(outputs) ==
  IF outputs = <<>> THEN <<>>
  ELSE (IF Head(outputs).type = "logs"
          THEN <<"\n">> \o Write(Head(outputs).logs) \o <<"\n">>
          ELSE <<>>)
       \o node_logs(Tail(outputs))

\* .on('toolCallDelta', (toolCallDelta, snapshot) => {...}): an absent or
\* empty input is false in JavaScript, an outputs array is true even if empty
toolCallDelta(delta) ==
  IF delta.type = "code_interpreter"
    THEN (IF delta.input # "" THEN Write(delta.input) ELSE <<>>)
         \o (IF delta.has_outputs
               THEN <<"\n", "output >", "\n">> \o node_logs(delta.outputs)
               ELSE <<>>)
    ELSE <<>>

\* the same event reaches both examples; each writes to its own stdout
Deliver(event, py, node) ==
  /\ delivered < MaxEvents
  /\ delivered' = delivered + 1
  /\ lastEvent' = event
  /\ py_last' = py
  /\ node_last' = node
  /\ py_out' = py_out \o py
  /\ node_out' = node_out \o node
  /\ UNCHANGED notebookVars

\* thread.message.created with text content: on_text_created / 'textCreated'
TextCreatedEvent ==
  LET event == Event("text_created", "", "", "", FALSE, <<>>)
  IN Deliver(event, on_text_created(event), textCreated(event))

\* a text delta: on_text_delta / 'textDelta'
TextDeltaEvent ==
  \E value \in TextValues :
    LET event == Event("text_delta", value, "", "", FALSE, <<>>)
    IN Deliver(event, on_text_delta(event), textDelta(event))

\* a new tool call: on_tool_call_created / 'toolCallCreated'
ToolCallCreatedEvent ==
  \E type \in ToolTypes :
    LET event == Event("tool_call_created", "", type, "", FALSE, <<>>)
    IN Deliver(event, on_tool_call_created(event), toolCallCreated(event))

\* a tool call delta: on_tool_call_delta / 'toolCallDelta'
ToolCallDeltaEvent ==
  \E event \in ToolCallDeltas :
    Deliver(event, on_tool_call_delta(event), toolCallDelta(event))

StreamNext ==
  \/ TextCreatedEvent \/ TextDeltaEvent
  \/ ToolCallCreatedEvent \/ ToolCallDeltaEvent

\* the streaming example alone, the notebook not started
StreamInit == Init /\ Len(dataset) = NumSelected

StreamSpec == StreamInit /\ [][StreamNext]_vars

(* ============================== claims ================================ *)
\* positions inside the while True loop before its break branch
Polling == {"retrieve", "await_retrieve", "check", "sleep"}
\* positions of the break branch and of the cell after the loop
AfterPolling == {"list", "await_list", "build", "display", "first_item", "done"}

\* the two statuses the loop is specified to stop on
Finished == {"completed", "failed"}
\* positions where the cell blocks on a remote call
Awaiting == {"await_create_eval", "await_create_run", "await_retrieve",
             "await_list"}

\* C1: once runs.retrieve has returned a run whose status is final for the
\* remote run (completed, failed or canceled), the loop does not go on to
\* sleep and poll again.
C1_StopsOnTerminal ==
  (pc \in {"sleep", "retrieve", "await_retrieve"} /\ "run" \in assigned)
    => run.status \notin RemoteTerminal

\* C2: the remote calls are issued in a fixed order, each after the previous
\* one was answered and with the ids the previous ones returned: evals.create,
\* evals.runs.create, every runs.retrieve, output_items.list, then the display.
C2_SequentialOrder ==
  /\ "evals.runs.create" \in issued =>
       /\ "evals.create" \in completed
       /\ eval_object \in EvalIds
  /\ "evals.runs.retrieve" \in issued =>
       /\ "evals.runs.create" \in completed
       /\ eval_run \in RunIds
  /\ "evals.runs.output_items.list" \in issued =>
       /\ "evals.runs.retrieve" \in completed
       /\ pc \notin Polling
  /\ displays > 0 =>
       /\ "evals.runs.output_items.list" \in completed
       /\ pc \notin Polling \cup {"list", "await_list", "build"}
  /\ \A k \in 1..Len(outstanding) :
       LET r == outstanding[k] IN
         /\ r.call = "evals.runs.create" => r.eval_id = eval_object
         /\ r.call = "evals.runs.retrieve" =>
              r.eval_id = eval_object /\ r.run_id = eval_run
         /\ r.call = "evals.runs.output_items.list" =>
              r.eval_id = eval_object /\ r.run_id = eval_run
         /\ r.call # "evals.create" => r.eval_id \in EvalIds
         /\ r.call \notin {"evals.create", "evals.runs.create"} =>
              r.run_id \in RunIds

\* every stage has happened, after more than one poll
C2_Witness ==
  /\ pc = "done"
  /\ polls = MaxPolls
  /\ displays = 1
  /\ issued = RemoteCalls

\* C3: the loop has no timeout: it is left only after runs.retrieve has
\* returned "completed" or "failed"; on any other status, however many polls
\* were made, it sleeps and polls again.
C3_NoTimeout ==
  /\ [](pc \in AfterPolling => run.status \in Finished)
  /\ [][(pc = "check" /\ run.status \notin Finished /\ pc' # pc)
         => pc' = "sleep"]_vars
  /\ [][(pc = "sleep" /\ pc' # pc) => pc' = "retrieve"]_vars
  /\ [](pc = "retrieve" => ENABLED RetrieveIssue)

\* the counter of polls is exhausted, the run was seen canceled, and the loop
\* is polling again
C3_Witness ==
  /\ pc = "await_retrieve"
  /\ polls = MaxPolls
  /\ run.status = "canceled"
  /\ remoteStatus = "canceled"

\* C4: when the run reports "completed" or "failed" (and keeps reporting it)
\* and no remote call raises, the loop ends and the results table is
\* displayed.  Liveness form, for a fairly scheduled notebook.
C4_EventuallyShown ==
  ((<>[](remoteStatus \in Finished)) /\ [](raisedBy \notin RemoteCalls))
    => <>(displays > 0)

\* C4, in the form a finite run refutes: a notebook that saw the run finished
\* and has stopped on an exception, none of it raised by a remote call, has
\* displayed the results table.
C4_ResultsShown ==
  (pc = "raised" /\ run.status \in Finished /\ raisedBy \notin RemoteCalls)
    => displays > 0

\* C5: the wait has a fixed interval: every sleep lasts 5 seconds, exactly
\* one sleep separates two consecutive runs.retrieve calls (none precedes the
\* first), and no sleep follows the poll that observed "completed"/"failed".
C5_FixedInterval ==
  /\ [](sleepDur \in {0, SleepSeconds})
  /\ [][(pc = "sleep" /\ pc' # pc) => sleepDur' = SleepSeconds]_vars
  /\ [][(pc = "retrieve" /\ pc' = "await_retrieve")
         => sleepsSincePoll = (IF polls = 0 THEN 0 ELSE 1)]_vars
  /\ []((pc \notin {"sleep", "await_retrieve"} /\ run.status \in Finished)
         => sleepsSincePoll = 0)
  /\ [][run.status \in Finished => sleepsSincePoll' = 0]_vars

\* a later poll is in flight, issued after one 5-second sleep
C5_Witness ==
  /\ pc = "await_retrieve"
  /\ polls = MaxPolls
  /\ sleepDur = SleepSeconds
  /\ sleepsSincePoll = 0
  /\ run.status = "in_progress"

\* C6: no retries and no error recovery: after a remote call raised the
\* notebook has stopped with no request in flight and no table displayed, and
\* the only call ever issued again is runs.retrieve, after an answered
\* runs.retrieve whose status was not final for the remote run.
C6_NoRetries ==
  /\ raisedBy \in RemoteCalls =>
       /\ pc = "raised"
       /\ outstanding = <<>>
       /\ displays = 0
  /\ (pc = "await_retrieve" /\ polls > 1) =>
       /\ "evals.runs.retrieve" \in completed
       /\ run.status \notin RemoteTerminal

\* C7: the notebook blocks on each remote call: at most one request is in
\* flight, and while one is, the notebook waits for that very call.
C7_OneOutstanding ==
  /\ Len(outstanding) <= 1
  /\ outstanding # <<>> <=> pc \in Awaiting
  /\ \A k \in 1..Len(outstanding) :
       pc = CASE outstanding[k].call = "evals.create" -> "await_create_eval"
              [] outstanding[k].call = "evals.runs.create" -> "await_create_run"
              [] outstanding[k].call = "evals.runs.retrieve" -> "await_retrieve"
              [] OTHER -> "await_list"

\* the list request is in flight after several answered polls
C7_Witness ==
  /\ Len(outstanding) = 1
  /\ outstanding[1].call = "evals.runs.output_items.list"
  /\ polls = MaxPolls
  /\ completed = RemoteCalls \ {"evals.runs.output_items.list"}

\* C8: a "failed" run is handled like a "completed" one: on either status
\* the loop goes on to list the output items, and whenever it is then left
\* the items were listed once and the table built from them was displayed
\* once, with nothing raised.
C8_FailedLikeCompleted ==
  /\ [][(pc = "check" /\ run.status \in Finished /\ pc' # pc)
         => pc' = "list"]_vars
  /\ [](pc \in {"first_item", "done"} =>
          /\ run.status \in Finished
          /\ listCalls = 1
          /\ displays = 1
          /\ df = Table(output_items)
          /\ raisedBy = "none")

\* a failed run's table, with a row per listed item, has been displayed
C8_Witness ==
  /\ pc = "first_item"
  /\ run.status = "failed"
  /\ displays = 1
  /\ Len(df.grading_results) = MaxItems

\* C9: output_items.list is called at most once and the table displayed at
\* most once, never while the last retrieved status is other than
\* "completed" or "failed"; output_items is unbound until the list call
\* has been answered.
C9_ListAndDisplayOnce ==
  /\ listCalls <= 1
  /\ displays <= 1
  /\ (listCalls > 0 \/ displays > 0) => run.status \in Finished
  /\ "evals.runs.output_items.list" \in issued => run.status \in Finished
  /\ "output_items" \in assigned <=>
       "evals.runs.output_items.list" \in completed
  /\ "output_items" \notin assigned => output_items = <<>>

\* a completed run's items were listed and displayed
C9_Witness ==
  /\ "output_items" \in assigned
  /\ output_items # <<>>
  /\ listCalls = 1
  /\ displays = 1
  /\ run.status = "completed"

\* C10: after dataset preparation evals_data_source holds the first 3 rows of
\* the test split, in order, each as {"item": {...}} whose keys are exactly
\* the fields item_schema requires, with the row's values.
C10_DataSource ==
  pc \notin {"prepare", "prepare_loop"} =>
    /\ Len(evals_data_source) = NumSelected
    /\ \A i \in 1..Len(evals_data_source) :
         /\ DOMAIN evals_data_source[i] = {"item"}
         /\ DOMAIN evals_data_source[i].item = RequiredFields
         /\ i <= Len(dataset)
         /\ \A f \in RequiredFields :
              evals_data_source[i].item[f] = dataset[i][f]

\* preparation is over for a test split longer than the selection
C10_Witness ==
  /\ pc = "create_eval"
  /\ Len(dataset) > NumSelected
  /\ Len(evals_data_source) = NumSelected

\* C11: the displayed table has one row per listed output item, in listing
\* order; row i has the prompt and reference of item i's datasource_item, the
\* first element of item i's sample output and the first output of item i's
\* first grader result; the four columns have the same length.
C11_TableRows ==
  "df" \in assigned =>
    /\ Len(df.prompt) = Len(output_items)
    /\ Len(df.reference) = Len(output_items)
    /\ Len(df.model_response) = Len(output_items)
    /\ Len(df.grading_results) = Len(output_items)
    /\ \A i \in 1..Len(output_items) :
         /\ df.prompt[i] = output_items[i].datasource_item.prompt
         /\ df.reference[i] = output_items[i].datasource_item.reference
         /\ df.model_response[i] = Head(output_items[i].sample_output)
         /\ df.grading_results[i] =
              Head(Head(output_items[i].results).output)

\* a table of several rows, from items of different data, has been displayed
C11_Witness ==
  /\ "df" \in assigned
  /\ displays = 1
  /\ Len(output_items) > 1
  /\ output_items[1].datasource_item # output_items[2].datasource_item
  /\ Len(output_items[1].sample_output) > 1

\* some listed item has an empty results list or an empty sample output list
HasEmptyLists ==
  \E i \in 1..Len(output_items) :
    output_items[i].results = <<>> \/ output_items[i].sample_output = <<>>

\* C12: the results step checks none of the data it indexes: once the list
\* call was answered with an item whose results or sample output is empty,
\* building the table raises and nothing is displayed; once it was answered
\* with no item at all, an empty table is displayed and output_items[0] in
\* the next cell raises, so no first item is printed.
C12_UncheckedData ==
  /\ ("output_items" \in assigned /\ HasEmptyLists /\ pc # "build") =>
       /\ pc = "raised"
       /\ raisedBy = "DataFrame"
       /\ displays = 0
       /\ "df" \notin assigned
  /\ ("output_items" \in assigned /\ output_items = <<>>
        /\ pc \notin {"build", "display"}) =>
       /\ displays = 1
       /\ df = NoTable
       /\ "first_item" \notin assigned
       /\ pc = "first_item" \/ (pc = "raised" /\ raisedBy = "first_item")
  /\ (pc = "raised" /\ raisedBy = "first_item") => output_items = <<>>
  /\ (pc = "raised" /\ raisedBy = "DataFrame") => ~CanBuild(output_items)

\* a failed run listed an item without results and the table build raised
C12_Witness ==
  /\ pc = "raised"
  /\ raisedBy = "DataFrame"
  /\ run.status = "failed"
  /\ \E i \in 1..Len(output_items) : output_items[i].results = <<>>
  /\ displays = 0

\* the texts an element of an outputs list can carry
OutputTexts == {o.logs : o \in CodeOutputs}
\* positions of a token in a written sequence
Positions(written, token) == {k \in 1..Len(written) : written[k] = token}
\* the logs of the outputs of type "logs", in list order
LogsInOrder(outputs) ==
  LET logs == SelectSeq(outputs, LAMBDA o : o.type = "logs")
  IN [k \in 1..Len(logs) |-> logs[k].logs]

\* C13: Python's on_tool_call_delta writes nothing for a delta that is not of
\* type code_interpreter; for a code_interpreter delta it writes the input
\* exactly when the input is non-empty, the "output >" header exactly when
\* the outputs list is non-empty and after the input, and after the header
\* the logs of exactly the outputs of type "logs", in list order.
C13_ToolCallDelta ==
  lastEvent.kind = "tool_call_delta" =>
    LET d == lastEvent
        w == py_last
        header == Positions(w, "output >")
        texts == {k \in 1..Len(w) : w[k] \in OutputTexts}
    IN /\ d.type # "code_interpreter" => w = <<>>
       /\ d.type = "code_interpreter" =>
            /\ Positions(w, d.input) # {} <=> d.input # ""
            /\ d.input # "" => Positions(w, d.input) = {1}
            /\ header # {} <=> (d.has_outputs /\ d.outputs # <<>>)
            /\ Cardinality(header) <= 1
            /\ \A h \in header, k \in Positions(w, d.input) : k < h
            /\ \A h \in header, k \in texts : h < k
            /\ texts # {} => header # {}
            /\ SelectSeq(w, LAMBDA t : t \in OutputTexts)
                 = LogsInOrder(d.outputs)
            /\ \A k \in 1..Len(w) :
                 w[k] \in {"\n", "output >", d.input} \cup OutputTexts

\* a code_interpreter delta with an input and with outputs of both kinds,
\* the logs not in alphabetical order
C13_Witness ==
  /\ lastEvent.kind = "tool_call_delta"
  /\ lastEvent.type = "code_interpreter"
  /\ lastEvent.input # ""
  /\ lastEvent.has_outputs
  /\ \E i, j \in 1..Len(lastEvent.outputs) :
       /\ lastEvent.outputs[i].type = "logs"
       /\ lastEvent.outputs[j].type # "logs"
  /\ Len(py_last) > 1

\* C14: the Python and the Node.js example write the same character stream
\* for every sequence of text-created, text-delta, tool-call-created and
\* tool-call-delta events.
C14_SameStream == py_out = node_out
=============================================================================
